---- MODULE Spec2Model ----
(***************************************************************************)
(* The extension host of nero-extensions: WasmHost::load_extension_async   *)
(* (host.rs), WasmExtension::instantiate_async and the four extraction     *)
(* operations of impl Extension for WasmExtension (extensions/mod.rs);     *)
(* the Display derive of typewind-macros (display.rs) on the enums of      *)
(* typewind's transitions_animation.rs; the watch page of nero-ui          *)
(* (pages/watch.rs).                                                       *)
(***************************************************************************)
EXTENDS Naturals, Sequences, FiniteSets, TLC

(* ------------------------------ bounds --------------------------------- *)
\* load_extension_async calls made in one behaviour
NLoads == 2
\* extraction calls made in one behaviour
NCalls == 2
\* times the environment rewrites the file at the path during a behaviour
MaxReplace == 1
\* longest list a guest returns
MaxItems == 2
\* largest major, minor or patch number of a version handed to instantiate_async
MaxVer == 2

Loads == 1..NLoads
Calls == 1..NCalls
NoCall == 0
\* the two extensions of a host that has loaded two, and the two calls of a
\* caller that makes one call after another
Loaded == {1, 2}
TwoCalls == {1, 2}
\* the call of a caller that makes one call while the host loads
OneCall == {1}

(* ------------------------- module files -------------------------------- *)
\* The contents a file at the path can have, by what the loader can tell
\* apart: the binary's kind, the version its metadata declares, and whether
\* it exports the extractor interface of since_v0_0_1.
Blobs == {"c001", "c000", "cnometa", "cnoexp", "module", "garbage"}
NoFile == "nofile"
NoBytes == "none"
NoVersion == <<>>

Kind(b) ==
    CASE b \in {"c001", "c000", "cnometa", "cnoexp"} -> "component"
      [] b = "module" -> "module"
      [] OTHER -> "invalid"

\* the semantic version declared in the embedded metadata; NoVersion when
\* the metadata is absent or malformed
Declared(b) ==
    CASE b \in {"c001", "cnoexp", "module"} -> <<0, 0, 1>>
      [] b = "c000" -> <<0, 0, 0>>
      [] OTHER -> NoVersion

Exports(b) == b \in {"c001", "c000", "cnometa"}

(* ------------------------ semantic versions ---------------------------- *)
\* since_v0_0_1::MIN_VER
MIN_VER == <<0, 0, 1>>

\* SemanticVersion's derived ordering: major, then minor, then patch
SemVerGE(v, w) ==
    \/ v[1] > w[1]
    \/ v[1] = w[1] /\ v[2] > w[2]
    \/ v[1] = w[1] /\ v[2] = w[2] /\ v[3] >= w[3]

VARIABLES fs, replaced, load, nextStore, mutex, call, disp, watch

vars == <<fs, replaced, load, nextStore, mutex, call, disp, watch>>
loadVars == <<fs, replaced, load, nextStore>>
callVars == <<mutex, call>>
viewVars == <<disp, watch>>

LoadOrder == <<"read", "version", "compile", "payload", "store", "link", "select", "instantiate">>

\* WasmState before Store::new has built one
NoState == [table |-> {}, preopens |-> {}, http_ctx |-> "none"]

IdleLoad ==
    [pc |-> "idle", wasm_bytes |-> NoBytes, version |-> NoVersion,
     component |-> NoBytes, store |-> 0, state |-> NoState, linker |-> {},
     link |-> "none", extension |-> "none", err |-> "none", steps |-> <<>>]

\* tokio::sync::Mutex<Store<WasmState>>, mod.rs:22: the call that holds the
\* guard and the calls queued at lock().await, first come first served
FreeMutex == [holder |-> NoCall, waiters |-> <<>>]

NoOutcome == [tag |-> "none", items |-> <<>>, more |-> FALSE, msg |-> ""]
NoResult == [tag |-> "none", items |-> <<>>, more |-> FALSE, msg |-> ""]

\* the arguments of search: query, page (Option<u16>, <<>> when absent) and
\* filters; the operations whose arguments the model does not follow carry
\* NoArgs
NoArgs == [query |-> "", page |-> <<>>, filters |-> <<>>]

IdleCall ==
    [pc |-> "idle", inst |-> 0, op |-> "none", args |-> NoArgs,
     entry |-> "none", sent |-> NoArgs, invoked |-> 0,
     raw |-> NoOutcome, result |-> NoResult]

\* Option<T>: None and Some(x)
None == <<>>
Some(x) == <<x>>

\* no Display::fmt under way
IdleDisp ==
    [pc |-> "idle", enum |-> "none", ident |-> <<>>, no_prefix |-> FALSE,
     name |-> <<>>, i |-> 0, kebab |-> "", text |-> ""]

NoEpisode == [number |-> 0, title |-> None, thumbnail_url |-> None, description |-> None]
NoView == [player |-> "none", src |-> "", poster |-> None, heading |-> ""]

\* no WatchPage constructed
IdleWatch == [pc |-> "idle", episode |-> NoEpisode, videos |-> None, view |-> NoView]

Init ==
    /\ disp = IdleDisp
    /\ watch = IdleWatch
    /\ fs \in Blobs \cup {NoFile}
    /\ replaced = 0
    /\ load = [l \in Loads |-> IdleLoad]
    /\ nextStore = 1
    /\ mutex = [l \in Loads |-> FreeMutex]
    /\ call = [c \in Calls |-> IdleCall]

\* the environment writes, replaces or removes the file at the path
ReplaceFile ==
    /\ replaced < MaxReplace
    /\ \E b \in Blobs \cup {NoFile} :
         /\ b # fs
         /\ fs' = b
    /\ replaced' = replaced + 1
    /\ UNCHANGED <<load, nextStore, callVars, viewVars>>

\* host.rs:64: the stub reports 0.0.1 whatever the bytes are
get_extension_version(wasm_bytes) == <<0, 0, 1>>

\* a failure that fails every load and instance of the host with it
LoadFailsAll(ld, l, e) ==
    [k \in DOMAIN ld |-> [ld[k] EXCEPT !.pc = "failed", !.err = e, !.extension = "none"]]

\* `?` in load_extension_async and instantiate_async, host.rs:38-57 and
\* mod.rs:39: the error is returned to the caller of this load
LoadFails(ld, l, e) == [ld EXCEPT ![l].pc = "failed", ![l].err = e]

\* host.rs:36-39: std::fs::read and get_extension_version
LoadRead(l) ==
    /\ load[l].pc = "idle"
    /\ \A k \in Loads : k < l => load[k].pc # "idle"
    /\ IF fs = NoFile
       THEN load' = LoadFails([load EXCEPT ![l].steps = <<"read">>], l, "IoError")
       ELSE load' = [load EXCEPT ![l].pc = "read", ![l].wasm_bytes = fs,
                                 ![l].version = get_extension_version(fs),
                                 ![l].steps = <<"read", "version">>]
    /\ UNCHANGED <<fs, replaced, nextStore, callVars, viewVars>>

\* Component::from_file(&self.engine, path), host.rs:40: reads the file at
\* the path again and compiles what it finds there; NoBytes when the file is
\* gone or is no component
ComponentFromFile(file) ==
    IF file # NoFile /\ Kind(file) = "component" THEN file ELSE NoBytes

\* Payload::from_binary(&wasm_bytes), host.rs:41-44
PayloadFromBinary(wasm_bytes) ==
    CASE Kind(wasm_bytes) = "component" -> "metadata"
      [] Kind(wasm_bytes) = "module" -> "unreachable"
      [] OTHER -> "error"

\* host.rs:48-52: ResourceTable::new(), WasiCtxBuilder::new().build() (no
\* preopened directory), WasiHttpCtx::new()
WasmStateNew ==
    [table |-> {}, preopens |-> {}, http_ctx |-> "new"]

\* every load handed the first store
StoreShared(n) == 1

\* Store::new(&self.engine, ..), host.rs:46: the n-th store the host makes
StoreNew(n) == n

\* host.rs:40-53: compile, read the payload, build the Store
LoadCompile(l) ==
    /\ load[l].pc = "read"
    /\ LET component == ComponentFromFile(fs)
           payload == PayloadFromBinary(load[l].wasm_bytes)
       IN  IF component = NoBytes
           THEN /\ load' = LoadFails([load EXCEPT ![l].steps = @ \o <<"compile">>],
                                      l, "CompileError")
                /\ UNCHANGED nextStore
           ELSE IF payload = "error"
           THEN /\ load' = LoadFails([load EXCEPT ![l].component = component,
                                                  ![l].steps = @ \o <<"compile", "payload">>],
                                      l, "MetadataError")
                /\ UNCHANGED nextStore
           ELSE IF payload = "unreachable"
           THEN /\ load' = [load EXCEPT ![l].pc = "panicked", ![l].err = "unreachable",
                                        ![l].component = component,
                                        ![l].steps = @ \o <<"compile", "payload">>]
                /\ UNCHANGED nextStore
           ELSE /\ load' = [load EXCEPT ![l].pc = "compiled",
                                        ![l].component = component,
                                        ![l].store = StoreNew(nextStore),
                                        ![l].state = WasmStateNew,
                                        ![l].steps = @ \o <<"compile", "payload", "store">>]
                /\ nextStore' = nextStore + 1
    /\ UNCHANGED <<fs, replaced, callVars, viewVars>>

\* the threshold compared with > instead of >=
SelectVariantStrict(version) ==
    IF SemVerGE(version, MIN_VER) /\ version # MIN_VER THEN "V001" ELSE "unsupported"

\* mod.rs:37-42: the adapter variant chosen for a version
SelectVariant(version) ==
    IF SemVerGE(version, MIN_VER) THEN "V001" ELSE "unsupported"

\* what wasmtime_wasi::add_to_linker_async and
\* wasmtime_wasi_http::add_only_http_to_linker_async can answer, mod.rs:34-35
LinkResults == {"ok", "wasi_err", "http_err"}

\* the linker also given a host function of the embedder's own
LinkerWithExtra(link) ==
    CASE link = "ok" -> {"wasi", "wasi-http", "host-fs"}
      [] link = "http_err" -> {"wasi"}
      [] OTHER -> {}

\* mod.rs:33-35: what the Linker holds after the two add_to_linker calls
LinkerAfter(link) ==
    CASE link = "ok" -> {"wasi", "wasi-http"}
      [] link = "http_err" -> {"wasi"}
      [] OTHER -> {}

\* mod.rs:33-39: instantiate_async up to the await of the guest's
\* instantiation; each add_to_linker result is unwrapped
InstantiateEnter(l, link) ==
    /\ load[l].pc = "compiled"
    /\ LET variant == SelectVariant(load[l].version)
       IN  IF link # "ok"
           THEN load' = [load EXCEPT ![l].pc = "panicked", ![l].err = "unwrap",
                                     ![l].link = link,
                                     ![l].linker = LinkerAfter(link),
                                     ![l].steps = @ \o <<"link">>]
           ELSE IF variant = "unsupported"
           THEN load' = LoadFails([load EXCEPT ![l].link = link,
                                               ![l].linker = LinkerAfter(link),
                                               ![l].steps = @ \o <<"link", "select">>],
                                   l, "UnsupportedVersionError")
           ELSE load' = [load EXCEPT ![l].pc = "instantiating",
                                     ![l].extension = variant,
                                     ![l].link = link,
                                     ![l].linker = LinkerAfter(link),
                                     ![l].steps = @ \o <<"link", "select", "instantiate">>]
    /\ UNCHANGED <<fs, replaced, nextStore, callVars, viewVars>>

\* mod.rs:39-47 and host.rs:55-59: the instantiation resolves; the store goes
\* under the Mutex of the new WasmExtension
InstantiateFinish(l) ==
    /\ load[l].pc = "instantiating"
    /\ IF Exports(load[l].component)
       THEN load' = [load EXCEPT ![l].pc = "done"]
       ELSE load' = LoadFails([load EXCEPT ![l].extension = "none"], l, "InstantiationError")
    /\ UNCHANGED <<fs, replaced, nextStore, callVars, viewVars>>

(* ------------------------ extraction calls ----------------------------- *)
Ops == {"filters", "search", "get_series_episodes", "get_series_videos"}

GuestMsgs == {"e1", "e2"}

\* what the guest can put in a list it returns; "bad" is a video whose URL
\* does not parse
GuestItems(op) ==
    IF op = "get_series_videos" THEN {"a", "b", "bad"} ELSE {"a", "b"}

SeqsUpTo(S, n) == UNION {[1..k -> S] : k \in 0..n}

IsPage(op) == op \in {"search", "get_series_episodes"}

\* the ways a guest entry point can end: a runtime failure of the call, a
\* failure the guest reports, or a value, here with a list from `lists`
GuestOutcomes(op, lists) ==
    {[tag |-> "trap", items |-> <<>>, more |-> FALSE, msg |-> ""]}
    \cup {[tag |-> "err", items |-> <<>>, more |-> FALSE, msg |-> m] : m \in GuestMsgs}
    \cup {[tag |-> "ok", items |-> xs, more |-> h, msg |-> ""] :
            xs \in lists, h \in IF IsPage(op) THEN BOOLEAN ELSE {FALSE}}

\* every list of at most MaxItems items
AllLists(op) == SeqsUpTo(GuestItems(op), MaxItems)

\* the lists that tell the paths of an operation apart: empty, one item, one
\* video that does not decode
ShortLists(op) == {<<>>, <<"a">>} \cup {<<x>> : x \in GuestItems(op) \cap {"bad"}}

\* one Mutex for the whole host instead of one per extension
LockOfHost(i) == 1

\* the Mutex the calls on instance i serialise on: self.store
LockOf(i) == i

\* the guard handed out without waiting for the holder
AcquireNoWait(m, c) == [m EXCEPT !.holder = c]

\* self.store.lock().await, mod.rs:53: the guard is granted at once when the
\* mutex is free, else the call queues behind the earlier ones
Acquire(m, c) ==
    IF m.holder = NoCall
    THEN [m EXCEPT !.holder = c]
    ELSE [m EXCEPT !.waiters = Append(@, c)]

\* the mutex freed without waking the call at the head of the queue
ReleaseNoHandOff(m, c) ==
    IF m.holder # c
    THEN [m EXCEPT !.waiters = SelectSeq(@, LAMBDA x : x # c)]
    ELSE [m EXCEPT !.holder = NoCall]

\* the guard is dropped, or the queued lock future is: the mutex goes to the
\* first call waiting
Release(m, c) ==
    IF m.holder # c
    THEN [m EXCEPT !.waiters = SelectSeq(@, LAMBDA x : x # c)]
    ELSE IF m.waiters = <<>>
    THEN FreeMutex
    ELSE [holder |-> Head(m.waiters), waiters |-> Tail(m.waiters)]

\* filters and search dispatched to each other's entry point
GuestEntrySwapped(variant, op) ==
    CASE variant = "V001" /\ op = "filters" -> "call_search"
      [] variant = "V001" /\ op = "search" -> "call_filters"
      [] variant = "V001" /\ op = "get_series_episodes" -> "call_get_series_episodes"
      [] variant = "V001" /\ op = "get_series_videos" -> "call_get_series_videos"
      [] OTHER -> "none"

\* match &self.extension, mod.rs:55-59, 76-81, 97-101, 117-121
GuestEntry(variant, op) ==
    CASE variant = "V001" /\ op = "filters" -> "call_filters"
      [] variant = "V001" /\ op = "search" -> "call_search"
      [] variant = "V001" /\ op = "get_series_episodes" -> "call_get_series_episodes"
      [] variant = "V001" /\ op = "get_series_videos" -> "call_get_series_videos"
      [] OTHER -> "none"

\* From<guest record> for the crate's FilterCategory, Series and Episode
IntoCrate(x) == [id |-> x]

\* Video::into_crate_video: the URL is parsed
VideoUrlOk(v) == v # "bad"
IntoCrateVideo(v) == [video_url |-> v]

\* the guest's items mapped last to first
IntoResultReversed(out) ==
    [tag |-> "Ok",
     items |-> [k \in 1..Len(out.items) |-> IntoCrate(out.items[Len(out.items) + 1 - k])],
     more |-> out.more, msg |-> ""]

\* mod.rs:63, 85, 105: the guest's value mapped item by item
IntoResult(out) ==
    [tag |-> "Ok", items |-> [k \in 1..Len(out.items) |-> IntoCrate(out.items[k])],
     more |-> out.more, msg |-> ""]

DecodeError == [tag |-> "Decode", items |-> <<>>, more |-> FALSE, msg |-> ""]

\* an episode without sources reported as a failure
CollectVideosNonEmpty(out) ==
    IF out.items = <<>> \/ \E k \in 1..Len(out.items) : ~VideoUrlOk(out.items[k])
    THEN DecodeError
    ELSE [tag |-> "Ok",
          items |-> [k \in 1..Len(out.items) |-> IntoCrateVideo(out.items[k])],
          more |-> FALSE, msg |-> ""]

\* the videos that decode returned, the others left out
CollectVideosPartial(out) ==
    LET good == SelectSeq(out.items, VideoUrlOk)
    IN  [tag |-> "Ok", items |-> [k \in 1..Len(good) |-> IntoCrateVideo(good[k])],
         more |-> FALSE, msg |-> ""]

\* mod.rs:125-130: collect::<Result<_>>() of into_crate_video over the list
CollectVideos(out) ==
    IF \E k \in 1..Len(out.items) : ~VideoUrlOk(out.items[k])
    THEN DecodeError
    ELSE [tag |-> "Ok",
          items |-> [k \in 1..Len(out.items) |-> IntoCrateVideo(out.items[k])],
          more |-> FALSE, msg |-> ""]

\* `.await?`: the runtime's error is returned
RuntimeError == [tag |-> "Runtime", items |-> <<>>, more |-> FALSE, msg |-> ""]

\* the guest's failure reported as a runtime failure, its message lost
GuestErrorDropped(out) == RuntimeError

\* `.map_err(|err| anyhow!("{err}"))?`: the guest's message is wrapped
GuestError(out) == [tag |-> "Guest", items |-> <<>>, more |-> FALSE, msg |-> out.msg]

\* the guard leaked on return
GuardLeaked(m, c) == m

\* the mutex when a call returns: the guard goes out of scope
GuardDropped(m, c) == Release(m, c)

\* the guard dropped as soon as the guest call has returned
GuardDroppedEarly(m, c) == Release(m, c)

\* the mutex while the call goes on after the guest returned a value
GuardKept(m, c) == m

\* the arguments a caller passes to an operation; for search the page is
\* absent or given and the filters are none, or one with an id the extension
\* does not know followed by one it declares
ArgsOf(op) ==
    IF op = "search"
    THEN {[query |-> "naruto", page |-> p, filters |-> fs_] :
            p \in {<<>>, <<2>>},
            fs_ \in {<<>>,
                     <<[id |-> "unknown", values |-> <<>>],
                       [id |-> "genre", values |-> <<"action">>]>>}}
    ELSE {NoArgs}

\* the arguments of a caller that passes no page and no filter
PlainArgs(op) ==
    IF op = "search" THEN [query |-> "naruto", page |-> <<>>, filters |-> <<>>]
    ELSE NoArgs

\* From<SearchFilter> for the guest's SearchFilter record
IntoGuestFilter(f) == [id |-> f.id, values |-> f.values]

\* the first page asked for when the caller names none, and the filters the
\* extension does not declare left out
SentArgsInterpreted(op, args) ==
    [query |-> args.query,
     page |-> IF op = "search" /\ args.page = <<>> THEN <<1>> ELSE args.page,
     filters |-> SelectSeq(args.filters, LAMBDA f : f.id # "unknown")]

\* mod.rs:78-81: what call_search is handed: query, page, and the filters
\* mapped one by one
SentArgs(op, args) ==
    [query |-> args.query, page |-> args.page,
     filters |-> [k \in 1..Len(args.filters) |-> IntoGuestFilter(args.filters[k])]]

\* the guard given up while the guest call is awaited
GuardTimedOut(m, c) == Release(m, c)

\* the guard lives across `.await` of the guest call, mod.rs:57-60: no
\* timeout wraps the call
GuardAcrossAwait(m, c) == m

\* the entry point invoked again after the first invocation
InvokedTwice(n) == n + 2

\* the one call of the guest entry point in each operation, mod.rs:57, 81,
\* 100, 120
InvokedOnce(n) == n + 1

\* let mut store = self.store.lock().await, first line of each operation
CallLock(c, i, op, args) ==
    /\ call[c].pc = "idle"
    /\ \A k \in Calls : k < c => call[k].pc # "idle"
    /\ load[i].pc = "done"
    /\ mutex' = [mutex EXCEPT ![LockOf(i)] = Acquire(@, c)]
    /\ call' = [call EXCEPT ![c].pc = "lock", ![c].inst = i, ![c].op = op,
                            ![c].args = args]
    /\ UNCHANGED <<loadVars, viewVars>>

\* the variant replaced by none after a call that failed
ExtensionReset(variant, out) == IF out.tag = "ok" THEN variant ELSE "none"

\* the operations take &self, mod.rs:52, 68, 90, 110: the extension field
\* is only read
ExtensionKept(variant, out) == variant

\* the future forgotten instead of dropped: its guard is never released
FutureForgotten(m, c) == m

\* the future of an operation dropped by its caller: the guard it holds, or
\* its place in the queue, goes with it
FutureDropped(m, c) == Release(m, c)

\* the guard is held: dispatch on the variant and start the guest call
CallInvoke(c) ==
    /\ call[c].pc = "lock"
    /\ mutex[LockOf(call[c].inst)].holder = c
    /\ call' = [call EXCEPT ![c].pc = "guest",
                            ![c].entry = GuestEntry(load[call[c].inst].extension, call[c].op),
                            ![c].sent = SentArgs(call[c].op, call[c].args),
                            ![c].invoked = InvokedOnce(@)]
    /\ mutex' = [mutex EXCEPT ![LockOf(call[c].inst)] = GuardAcrossAwait(@, c)]
    /\ UNCHANGED <<loadVars, viewVars>>

\* the guest call resolves and the operation runs on to its next stop
GuestReturn(c, out) ==
    /\ call[c].pc = "guest"
    /\ LET i == LockOf(call[c].inst) IN
       CASE out.tag = "trap" ->
              /\ call' = [call EXCEPT ![c].pc = "done", ![c].raw = out,
                                      ![c].result = RuntimeError]
              /\ mutex' = [mutex EXCEPT ![i] = GuardDropped(@, c)]
         [] out.tag = "err" ->
              /\ call' = [call EXCEPT ![c].pc = "done", ![c].raw = out,
                                      ![c].result = GuestError(out)]
              /\ mutex' = [mutex EXCEPT ![i] = GuardDropped(@, c)]
         [] out.tag = "ok" /\ call[c].op = "get_series_videos" ->
              /\ call' = [call EXCEPT ![c].pc = "decode", ![c].raw = out]
              /\ mutex' = [mutex EXCEPT ![i] = GuardKept(@, c)]
         [] OTHER ->
              /\ call' = [call EXCEPT ![c].pc = "done", ![c].raw = out,
                                      ![c].result = IntoResult(out)]
              /\ mutex' = [mutex EXCEPT ![i] = GuardDropped(@, c)]
    /\ load' = [load EXCEPT ![call[c].inst].extension = ExtensionKept(@, out)]
    /\ UNCHANGED <<fs, replaced, nextStore, viewVars>>

\* mod.rs:125-130: the videos are resolved against the store, then the
\* operation returns
VideosDecode(c) ==
    /\ call[c].pc = "decode"
    /\ call' = [call EXCEPT ![c].pc = "done", ![c].result = CollectVideos(call[c].raw)]
    /\ mutex' = [mutex EXCEPT ![LockOf(call[c].inst)] = GuardDropped(@, c)]
    /\ UNCHANGED <<loadVars, viewVars>>

\* the caller drops the operation's future at one of its suspension points
CallCancel(c) ==
    /\ call[c].pc \in {"lock", "guest"}
    /\ call' = [call EXCEPT ![c].pc = "cancelled"]
    /\ mutex' = [mutex EXCEPT ![LockOf(call[c].inst)] = FutureDropped(@, c)]
    /\ UNCHANGED <<loadVars, viewVars>>

(* --------------------- typewind: Display derive ------------------------ *)
Uppers == <<"A", "B", "C", "D", "E", "F", "G", "H", "I", "J", "K", "L", "M",
            "N", "O", "P", "Q", "R", "S", "T", "U", "V", "W", "X", "Y", "Z">>
Lowers == <<"a", "b", "c", "d", "e", "f", "g", "h", "i", "j", "k", "l", "m",
            "n", "o", "p", "q", "r", "s", "t", "u", "v", "w", "x", "y", "z">>

\* char::is_uppercase and char::to_ascii_lowercase on the characters of
\* the identifiers
is_uppercase(ch) == \E k \in 1..Len(Uppers) : Uppers[k] = ch
to_ascii_lowercase(ch) ==
    IF is_uppercase(ch) THEN Lowers[CHOOSE k \in 1..Len(Uppers) : Uppers[k] = ch] ELSE ch

\* the enums of transitions_animation.rs that derive Display
Enums == {"TransitionProperty", "TransitionDuration", "TransitionTimingFunction",
          "TransitionDelay", "Animation"}

\* #[display(prefix = "..")] on the enum: DisplayOpts::prefix
Prefix(e) ==
    CASE e = "TransitionProperty" -> "transition"
      [] e = "TransitionDuration" -> "duration"
      [] e = "TransitionTimingFunction" -> "ease"
      [] e = "TransitionDelay" -> "delay"
      [] e = "Animation" -> "animate"

\* the unit variants of each enum: the identifier, and whether the variant
\* carries #[display(no_prefix)]
Variants(e) ==
    CASE e = "TransitionProperty" ->
        {[ident |-> <<"N", "o", "n", "e">>, no_prefix |-> FALSE],
         [ident |-> <<"A", "l", "l">>, no_prefix |-> FALSE],
         [ident |-> <<"T", "r", "a", "n", "s", "i", "t", "i", "o", "n">>, no_prefix |-> TRUE],
         [ident |-> <<"C", "o", "l", "o", "r", "s">>, no_prefix |-> FALSE],
         [ident |-> <<"O", "p", "a", "c", "i", "t", "y">>, no_prefix |-> FALSE],
         [ident |-> <<"S", "h", "a", "d", "o", "w">>, no_prefix |-> FALSE],
         [ident |-> <<"T", "r", "a", "n", "s", "f", "o", "r", "m">>, no_prefix |-> FALSE]}
      [] e = "TransitionDuration" ->
        {[ident |-> <<"_", "0">>, no_prefix |-> FALSE],
         [ident |-> <<"_", "7", "5">>, no_prefix |-> FALSE],
         [ident |-> <<"_", "1", "0", "0">>, no_prefix |-> FALSE],
         [ident |-> <<"_", "1", "5", "0">>, no_prefix |-> FALSE],
         [ident |-> <<"_", "2", "0", "0">>, no_prefix |-> FALSE],
         [ident |-> <<"_", "3", "0", "0">>, no_prefix |-> FALSE],
         [ident |-> <<"_", "5", "0", "0">>, no_prefix |-> FALSE],
         [ident |-> <<"_", "7", "0", "0">>, no_prefix |-> FALSE],
         [ident |-> <<"_", "1", "0", "0", "0">>, no_prefix |-> FALSE]}
      [] e = "TransitionTimingFunction" ->
        {[ident |-> <<"L", "i", "n", "e", "a", "r">>, no_prefix |-> FALSE],
         [ident |-> <<"I", "n">>, no_prefix |-> FALSE],
         [ident |-> <<"O", "u", "t">>, no_prefix |-> FALSE],
         [ident |-> <<"I", "n", "O", "u", "t">>, no_prefix |-> FALSE]}
      [] e = "TransitionDelay" ->
        {[ident |-> <<"_", "0">>, no_prefix |-> FALSE],
         [ident |-> <<"_", "7", "5">>, no_prefix |-> FALSE],
         [ident |-> <<"_", "1", "0", "0">>, no_prefix |-> FALSE],
         [ident |-> <<"_", "1", "5", "0">>, no_prefix |-> FALSE],
         [ident |-> <<"_", "2", "0", "0">>, no_prefix |-> FALSE],
         [ident |-> <<"_", "3", "0", "0">>, no_prefix |-> FALSE],
         [ident |-> <<"_", "5", "0", "0">>, no_prefix |-> FALSE],
         [ident |-> <<"_", "7", "0", "0">>, no_prefix |-> FALSE],
         [ident |-> <<"_", "1", "0", "0", "0">>, no_prefix |-> FALSE]}
      [] e = "Animation" ->
        {[ident |-> <<"N", "o", "n", "e">>, no_prefix |-> FALSE],
         [ident |-> <<"S", "p", "i", "n">>, no_prefix |-> FALSE],
         [ident |-> <<"P", "i", "n", "g">>, no_prefix |-> FALSE],
         [ident |-> <<"P", "u", "l", "s", "e">>, no_prefix |-> FALSE],
         [ident |-> <<"B", "o", "u", "n", "c", "e">>, no_prefix |-> FALSE]}

\* str::trim_start_matches('_'), display.rs:57
RECURSIVE trim_start_matches(_, _)
trim_start_matches(s, ch) ==
    IF s # <<>> /\ Head(s) = ch THEN trim_start_matches(Tail(s), ch) ELSE s

\* display.rs:23-26 and 55-57: Display::fmt of variant v of enum e; the
\* derive reads the variant's identifier and fields, no attribute of it
DisplayFmt(e, v) ==
    /\ disp.pc = "idle"
    /\ disp' = [pc |-> "kebab", enum |-> e, ident |-> v.ident,
                no_prefix |-> v.no_prefix,
                name |-> trim_start_matches(v.ident, "_"), i |-> 0,
                kebab |-> "", text |-> ""]
    /\ UNCHANGED <<loadVars, callVars, watch>>

\* to_kebab_case, display.rs:75-83: one character of the enumerate/map
KebabChar ==
    /\ disp.pc = "kebab"
    /\ disp.i < Len(disp.name)
    /\ LET ch == disp.name[disp.i + 1]
       IN  disp' = [disp EXCEPT
                      !.kebab = IF is_uppercase(ch) /\ disp.i > 0
                                THEN @ \o "-" \o to_ascii_lowercase(ch)
                                ELSE @ \o to_ascii_lowercase(ch),
                      !.i = @ + 1]
    /\ UNCHANGED <<loadVars, callVars, watch>>

\* display.rs:67 and 30-38: the arm of a unit variant, wrapped in
\* format!("{}-{}", prefix, ..) because the enum has a prefix
DisplayWrite ==
    /\ disp.pc = "kebab"
    /\ disp.i = Len(disp.name)
    /\ disp' = [disp EXCEPT !.pc = "done",
                            !.text = Prefix(disp.enum) \o "-" \o disp.kebab]
    /\ UNCHANGED <<loadVars, callVars, watch>>

(* ------------------------ nero-ui: watch page --------------------------- *)
\* the episodes a history state can hold
Episodes ==
    [number : {1}, title : {None, Some("t")}, thumbnail_url : {None, Some("u")},
     description : {None, Some("d")}]

\* the lists get_series_videos returns with Ok: decoded videos, none included
VideoLists == {[k \in 1..Len(xs) |-> IntoCrateVideo(xs[k])] : xs \in SeqsUpTo({"a", "b"}, MaxItems)}

\* watch.rs:91-105: the children of the article for the videos resource and
\* the episode; videos[0] panics on an empty Vec
RenderView(videos, episode) ==
    LET heading == IF episode.title = None THEN "Episode" ELSE episode.title[1]
    IN  IF videos = None
        THEN [player |-> "text", src |-> "Loading player...", poster |-> None,
              heading |-> heading]
        ELSE IF Len(videos[1]) = 0
        THEN [player |-> "panicked", src |-> "", poster |-> None, heading |-> ""]
        ELSE [player |-> "video", src |-> videos[1][1].video_url,
              poster |-> episode.thumbnail_url, heading |-> heading]

\* WatchPage::new, watch.rs:36-46: the episode is taken from the history
\* state with unwrap_throw, the videos resource starts unresolved
WatchPageNew(state) ==
    /\ watch.pc = "idle"
    /\ IF state = None
       THEN watch' = [watch EXCEPT !.pc = "threw"]
       ELSE watch' = [watch EXCEPT !.pc = "new", !.episode = state[1]]
    /\ UNCHANGED <<loadVars, callVars, disp>>

\* From<WatchPage> for View, watch.rs:73-120: the view is built and the
\* closure over the videos resource runs for the first time
WatchView ==
    /\ watch.pc = "new"
    /\ watch' = [watch EXCEPT !.pc = "viewed",
                              !.view = RenderView(watch.videos, watch.episode)]
    /\ UNCHANGED <<loadVars, callVars, disp>>

\* the videos resource resolves to the list get_series_videos returned; on a
\* page already in view the closure of watch.rs:91 runs again
VideosResolve(videos) ==
    /\ watch.pc \in {"new", "viewed"}
    /\ watch.videos = None
    /\ watch' = [watch EXCEPT
                    !.videos = Some(videos),
                    !.view = IF watch.pc = "viewed"
                             THEN RenderView(Some(videos), watch.episode) ELSE @]
    /\ UNCHANGED <<loadVars, callVars, disp>>

NextDisplay ==
    \/ \E e \in Enums : \E v \in Variants(e) : DisplayFmt(e, v)
    \/ KebabChar
    \/ DisplayWrite

NextWatch ==
    \/ \E state \in {None} \cup {Some(e) : e \in Episodes} : WatchPageNew(state)
    \/ WatchView
    \/ \E videos \in VideoLists : VideosResolve(videos)

NextLoad ==
    \/ ReplaceFile
    \/ \E l \in Loads : LoadRead(l)
    \/ \E l \in Loads : LoadCompile(l)
    \/ \E l \in Loads, link \in LinkResults : InstantiateEnter(l, link)
    \/ \E l \in Loads : InstantiateFinish(l)

\* concurrent callers; the guest answers with short lists
GuestReturnShort(c) ==
    \E out \in GuestOutcomes(call[c].op, ShortLists(call[c].op)) : GuestReturn(c, out)

\* one caller that awaits each call before it makes the next
CallLockInTurn(c, i, op) ==
    /\ \A k \in Calls : call[k].pc \in {"idle", "done"}
    /\ \E args \in ArgsOf(op) : CallLock(c, i, op, args)

\* a caller that passes no page and no filter
CallLockPlain(c, i, op) == CallLock(c, i, op, PlainArgs(op))

GuestReturnAny(c) ==
    \E out \in GuestOutcomes(call[c].op, AllLists(call[c].op)) : GuestReturn(c, out)

NextCall ==
    \/ \E c \in Calls, i \in Loads, op \in Ops : CallLockPlain(c, i, op)
    \/ \E c \in Calls : CallInvoke(c)
    \/ \E c \in Calls : GuestReturnShort(c)
    \/ \E c \in Calls : VideosDecode(c)
    \/ \E c \in Calls : CallCancel(c)

NextData ==
    \/ \E c \in TwoCalls, i \in Loads, op \in Ops : CallLockInTurn(c, i, op)
    \/ \E c \in Calls : CallInvoke(c)
    \/ \E c \in Calls : GuestReturnAny(c)
    \/ \E c \in Calls : VideosDecode(c)

\* the file at the path rewritten once in a behaviour
ReplaceOnce == replaced = 0 /\ ReplaceFile

\* two loads, and one call on an extension loaded so far, side by side
NextHost ==
    \/ ReplaceOnce
    \/ \E l \in Loaded : LoadRead(l)
    \/ \E l \in Loaded : LoadCompile(l)
    \/ \E l \in Loaded, link \in LinkResults : InstantiateEnter(l, link)
    \/ \E l \in Loaded : InstantiateFinish(l)
    \/ \E c \in OneCall, i \in Loaded, op \in Ops : CallLockPlain(c, i, op)
    \/ \E c \in Calls : CallInvoke(c)
    \/ \E c \in Calls : GuestReturnShort(c)
    \/ \E c \in Calls : VideosDecode(c)

\* two concurrent callers that never drop a call
NextLive ==
    \/ \E c \in TwoCalls, i \in Loads, op \in Ops : CallLockPlain(c, i, op)
    \/ \E c \in TwoCalls : CallInvoke(c)
    \/ \E c \in TwoCalls : GuestReturnShort(c)
    \/ \E c \in TwoCalls : VideosDecode(c)

\* the executor polls a call whose lock future is ready, every guest
\* invocation returns, and the decoding of the videos goes on
Fairness ==
    \A c \in TwoCalls :
        /\ WF_vars(CallInvoke(c))
        /\ WF_vars(GuestReturnShort(c))
        /\ WF_vars(VideosDecode(c))

Next ==
    NextLoad \/ NextCall \/ NextData \/ NextHost \/ NextLive \/ NextDisplay \/ NextWatch

\* a host that has loaded two extensions from a valid 0.0.1 component

LoadedFrom(b, s) ==
    [pc |-> "done", wasm_bytes |-> b, version |-> get_extension_version(b),
     component |-> b, store |-> s, state |-> WasmStateNew,
     linker |-> LinkerAfter("ok"), link |-> "ok", extension |-> "V001",
     err |-> "none", steps |-> LoadOrder]

InitLoaded ==
    /\ disp = IdleDisp
    /\ watch = IdleWatch
    /\ fs = "c001"
    /\ replaced = 0
    /\ load = [l \in Loads |-> IF l \in Loaded THEN LoadedFrom("c001", l) ELSE IdleLoad]
    /\ nextStore = 3
    /\ mutex = [l \in Loads |-> FreeMutex]
    /\ call = [c \in Calls |-> IdleCall]

\* InitLoaded as a state of the loader: reached from Init by loading twice
IsLoaded ==
    /\ fs = "c001" /\ replaced = 0 /\ nextStore = 3
    /\ \A l \in Loads : load[l] = IF l \in Loaded THEN LoadedFrom("c001", l) ELSE IdleLoad

\* instantiate_async entered with a compiled component, a fresh store and any
\* version
Versions == (0..MaxVer) \X (0..MaxVer) \X (0..MaxVer)

EnteredWith(v, b, s) ==
    [pc |-> "compiled", wasm_bytes |-> b, version |-> v, component |-> b,
     store |-> s, state |-> WasmStateNew, linker |-> {}, link |-> "none",
     extension |-> "none", err |-> "none",
     steps |-> <<"read", "version", "compile", "payload", "store">>]

InitSelect ==
    /\ disp = IdleDisp
    /\ watch = IdleWatch
    /\ fs \in {"c001", "cnoexp"}
    /\ replaced = MaxReplace
    /\ \E v \in [Loaded -> Versions] :
         load = [l \in Loads |-> IF l \in Loaded THEN EnteredWith(v[l], fs, l) ELSE IdleLoad]
    /\ nextStore = 3
    /\ mutex = [l \in Loads |-> FreeMutex]
    /\ call = [c \in Calls |-> IdleCall]

NextSelect ==
    \/ \E l \in Loads, link \in LinkResults : InstantiateEnter(l, link)
    \/ \E l \in Loads : InstantiateFinish(l)

Spec == Init /\ [][Next]_vars
SpecLoad == Init /\ [][NextLoad]_vars
SpecSelect == InitSelect /\ [][NextSelect]_vars
SpecCall == InitLoaded /\ [][NextCall]_vars
SpecData == InitLoaded /\ [][NextData]_vars
SpecHost == Init /\ [][NextHost]_vars
SpecDisplay == InitLoaded /\ [][NextDisplay]_vars
SpecWatch == InitLoaded /\ [][NextWatch]_vars
SpecLive == InitLoaded /\ [][NextLive]_vars /\ Fairness

(* ============================== claims ================================= *)
InFlight(c) == call[c].pc \in {"lock", "guest", "decode"}
UsesStore(c) == call[c].pc \in {"guest", "decode"}
HolderOf(c) == mutex[LockOf(call[c].inst)].holder
Queued(c) == \E k \in 1..Len(mutex[LockOf(call[c].inst)].waiters) :
                 mutex[LockOf(call[c].inst)].waiters[k] = c
ErrTags == {"Runtime", "Guest", "Decode"}

\* C1: on one instance at most one call is between the start of its guest
\* invocation and its return; a second call's guest invocation starts only
\* once the call using the store has completed.
C1_OneCallUsesStore ==
    \A c \in Calls, d \in Calls :
        (c # d /\ UsesStore(c) /\ UsesStore(d)) => call[c].inst # call[d].inst

\* C1 witness: a call is inside the guest while a second call on the same
\* instance is queued at lock().await.
C1_SecondCallWaits ==
    \E c \in Calls, d \in Calls :
        /\ c # d /\ call[c].inst = call[d].inst
        /\ call[c].pc = "guest" /\ call[d].pc = "lock" /\ Queued(d)

\* C2: a call holds the instance's guard from its guest invocation until its
\* result is decoded; get_series_videos still holds it while it resolves the
\* videos, and holds no result before that.
C2_GuardHeldThroughDecode ==
    \A c \in Calls :
        UsesStore(c) => (HolderOf(c) = c /\ call[c].result = NoResult)

\* C2 witness: get_series_videos is resolving a non-empty list of videos while
\* another call on the same instance waits for the guard.
C2_DecodingWhileOtherWaits ==
    \E c \in Calls, d \in Calls :
        /\ c # d /\ call[c].inst = call[d].inst
        /\ call[c].pc = "decode" /\ call[c].raw.items # <<>>
        /\ call[d].pc = "lock" /\ Queued(d)

\* C3: a call that returned an error no longer holds or queues for the guard,
\* and whenever no call is in flight on an instance its mutex is free.
C3_GuardReleasedOnError ==
    /\ \A c \in Calls :
          (call[c].pc = "done" /\ call[c].result.tag \in ErrTags)
              => (HolderOf(c) # c /\ ~Queued(c))
    /\ \A i \in Loads :
          (\A c \in Calls : InFlight(c) => call[c].inst # i)
              => mutex[LockOf(i)] = FreeMutex

\* C3 witness: a call failed while decoding and a later call on the same
\* instance has acquired the guard and entered the guest.
C3_AcquiredAfterError ==
    \E c \in Calls, d \in Calls :
        /\ c < d /\ call[c].inst = call[d].inst
        /\ call[c].pc = "done" /\ call[c].result.tag = "Decode"
        /\ call[d].pc = "guest" /\ HolderOf(d) = d

C5_InstancesIndependent ==
    /\ \A c \in Calls :
          (call[c].pc = "lock" /\ HolderOf(c) # c)
              => (HolderOf(c) # NoCall /\ call[HolderOf(c)].inst = call[c].inst)
    /\ \A i \in Loads, j \in Loads :
          (i # j /\ load[i].pc = "done" /\ load[j].pc = "done")
              => (load[i].store # load[j].store /\ LockOf(i) # LockOf(j))

\* C5 witness: a call on one instance is still inside the guest while a call
\* made later on the other instance has returned Ok.
C5_OtherInstanceCompletes ==
    \E c \in Calls, d \in Calls :
        /\ c < d /\ call[c].inst # call[d].inst
        /\ call[c].pc = "guest"
        /\ call[d].pc = "done" /\ call[d].result.tag = "Ok"

\* the adapter thresholds instantiate_async knows, and the variant of the
\* greatest threshold not above v
Thresholds == {[min |-> MIN_VER, variant |-> "V001"]}
Qualifying(v) == {t \in Thresholds : SemVerGE(v, t.min)}
GreatestBelow(v) ==
    IF Qualifying(v) = {}
    THEN "unsupported"
    ELSE (CHOOSE t \in Qualifying(v) : \A u \in Qualifying(v) : SemVerGE(t.min, u.min)).variant

Selected(l) ==
    CASE load[l].pc \in {"instantiating", "done"} -> load[l].extension
      [] load[l].pc = "failed" /\ load[l].err = "InstantiationError" -> "V001"
      [] load[l].pc = "failed" /\ load[l].err = "UnsupportedVersionError" -> "unsupported"
      [] OTHER -> "pending"

\* C6: instantiate_async selects the variant of the greatest threshold not
\* above the version (V001 for every version >= MIN_VER, none below it); equal
\* versions select the same variant and a version at or above a supported one
\* is supported.
C6_SelectsGreatestThreshold ==
    \A l \in Loads :
        Selected(l) # "pending"
        => /\ Selected(l) = GreatestBelow(load[l].version)
           /\ \A k \in Loads :
                Selected(k) # "pending"
                => /\ load[k].version = load[l].version => Selected(k) = Selected(l)
                   /\ (SemVerGE(load[k].version, load[l].version)
                          /\ Selected(l) # "unsupported")
                      => Selected(k) = Selected(l)

\* C6 witness: a version with a greater minor and a smaller patch number than
\* MIN_VER selected V001 and 0.0.0 was refused.
C6_AboveSelectedBelowRefused ==
    \E l \in Loads, k \in Loads :
        /\ load[l].version = <<0, 1, 0>> /\ Selected(l) = "V001"
        /\ load[k].version = <<0, 0, 0>> /\ Selected(k) = "unsupported"

Below(v, w) == v # NoVersion /\ ~SemVerGE(v, w)

\* C7: a module that declares a version below MIN_VER is never instantiated:
\* its load fails with UnsupportedVersionError.
C7_BelowThresholdRefused ==
    \A l \in Loads :
        (load[l].wasm_bytes # NoBytes /\ Below(Declared(load[l].wasm_bytes), MIN_VER))
        => /\ load[l].pc \notin {"instantiating", "done"}
           /\ load[l].extension = "none"

\* the error the documented order of steps gives for a file: the first step
\* that fails among read, parse version, compile, select, instantiate
FirstFailure(file) ==
    CASE file = NoFile -> "IoError"
      [] Declared(file) = NoVersion -> "MetadataError"
      [] Kind(file) # "component" -> "CompileError"
      [] Below(Declared(file), MIN_VER) -> "UnsupportedVersionError"
      [] ~Exports(file) -> "InstantiationError"
      [] OTHER -> "none"

IsPrefix(s, t) == Len(s) <= Len(t) /\ \A k \in 1..Len(s) : s[k] = t[k]

\* the documented steps of a load, in the documented order
DocumentedOrder == <<"read", "version", "compile", "store", "select", "instantiate">>
Documented(step) == \E k \in 1..Len(DocumentedOrder) : DocumentedOrder[k] = step

\* C8: the steps of a load run in the documented order and stop at the first
\* failure, and a failed load returns the error of the first step that fails
\* for its file in that order.
C8_FirstFailingStepReported ==
    \A l \in Loads :
        /\ IsPrefix(SelectSeq(load[l].steps, Documented), DocumentedOrder)
        /\ (load[l].pc = "failed" /\ replaced = 0) => load[l].err = FirstFailure(fs)

\* C9: the version handed to adapter selection is the one the module's
\* metadata declares, and a module without a readable version fails with
\* MetadataError.
C9_VersionIsDeclared ==
    \A l \in Loads :
        load[l].wasm_bytes # NoBytes
        => IF Declared(load[l].wasm_bytes) = NoVersion
           THEN load[l].pc = "failed" /\ load[l].err = "MetadataError"
           ELSE load[l].version = Declared(load[l].wasm_bytes)

\* C10: the component a load compiles is built from the bytes the load read.
C10_CompiledFromBytesRead ==
    \A l \in Loads :
        load[l].component # NoBytes => load[l].component = load[l].wasm_bytes

\* C11: when WASI or the HTTP-outbound capability cannot be bound into the
\* linker, the load returns a failure as an error value and produces no
\* instance; the host is not aborted.
C11_LinkFailureIsErrorValue ==
    \A l \in Loads :
        load[l].link \in {"wasi_err", "http_err"}
        => /\ load[l].pc = "failed"
           /\ load[l].err # "none"
           /\ load[l].extension = "none"

\* the loads that own an execution context
HasStore(l) == load[l].store # 0

\* C12: every load that built an execution context built a fresh one (empty
\* ResourceTable, default WasiCtx, new WasiHttpCtx), every instance has
\* exactly one, and no execution context belongs to two loads.
C12_FreshStorePerInstance ==
    /\ \A l \in Loads :
           /\ HasStore(l) => (load[l].state = WasmStateNew /\ load[l].store < nextStore)
           /\ load[l].pc \in {"instantiating", "done"} => HasStore(l)
    /\ \A l \in Loads, k \in Loads :
           (l # k /\ HasStore(l) /\ HasStore(k)) => load[l].store # load[k].store

\* C12 witness: the same unreplaced file loaded twice, both loads done, each
\* with its own store.
C12_SameFileTwoStores ==
    \E l \in Loads, k \in Loads :
        /\ l # k /\ replaced = 0
        /\ load[l].pc = "done" /\ load[k].pc = "done"
        /\ load[l].wasm_bytes = load[k].wasm_bytes
        /\ load[l].store # load[k].store

\* the WASI baseline and the HTTP-outbound capability
Baseline == {"wasi", "wasi-http"}

\* C20: a guest is instantiated against exactly the WASI baseline plus the
\* HTTP-outbound capability, its WasiCtx has no preopened directory, and
\* this is the same for every instance.
C20_ExactlyBaselineCapabilities ==
    /\ \A l \in Loads :
           load[l].pc \in {"instantiating", "done"}
           => load[l].linker = Baseline /\ load[l].state.preopens = {}
    /\ \A l \in Loads, k \in Loads :
           (load[l].pc = "done" /\ load[k].pc = "done")
           => /\ load[l].linker = load[k].linker
              /\ load[l].state.preopens = load[k].state.preopens

\* C20 witness: two instances loaded, both bound to the baseline only and
\* without preopened directories.
C20_TwoInstancesSameCapabilities ==
    \E l \in Loads, k \in Loads :
        /\ l # k /\ load[l].pc = "done" /\ load[k].pc = "done"
        /\ load[l].linker = Baseline /\ load[k].linker = Baseline
        /\ load[l].state.preopens = {} /\ load[k].state.preopens = {}

Returned(c) == call[c].pc = "done"

\* C13: when the guest returns an empty collection the operation returns Ok
\* with an empty result (an empty list, or a page with no items and the
\* guest's next-page hint), never an error.
C13_EmptyIsOk ==
    \A c \in Calls :
        (Returned(c) /\ call[c].raw.tag = "ok" /\ call[c].raw.items = <<>>)
        => /\ call[c].result.tag = "Ok"
           /\ call[c].result.items = <<>>
           /\ call[c].result.more = call[c].raw.more

\* C13 witness: get_series_videos and search both returned Ok and empty for
\* a guest that returned nothing.
C13_EmptyVideosAndEmptyPage ==
    \E c \in Calls, k \in Calls :
        /\ Returned(c) /\ call[c].op = "get_series_videos"
        /\ call[c].raw.tag = "ok" /\ call[c].raw.items = <<>>
        /\ call[c].result.tag = "Ok" /\ call[c].result.items = <<>>
        /\ Returned(k) /\ call[k].op = "search"
        /\ call[k].raw.tag = "ok" /\ call[k].raw.items = <<>>
        /\ call[k].result.tag = "Ok" /\ call[k].result.items = <<>>

\* the conversion an operation applies to one item of the guest
Converted(op, x) ==
    IF op = "get_series_videos" THEN IntoCrateVideo(x) ELSE IntoCrate(x)

\* C14: filters and get_series_videos, when they return Ok, return as many
\* items as the guest returned, the i-th being the conversion of the guest's
\* i-th.
C14_OrderPreserved ==
    \A c \in Calls :
        (Returned(c) /\ call[c].result.tag = "Ok"
            /\ call[c].op \in {"filters", "get_series_videos"})
        => /\ Len(call[c].result.items) = Len(call[c].raw.items)
           /\ \A k \in 1..Len(call[c].raw.items) :
                  call[c].result.items[k] = Converted(call[c].op, call[c].raw.items[k])

\* C14 witness: filters returned two different items in the guest's order,
\* and so did get_series_videos with the two in the other order.
C14_TwoItemsInOrder ==
    \E c \in Calls, k \in Calls :
        /\ Returned(c) /\ call[c].op = "filters"
        /\ call[c].raw.items = <<"a", "b">>
        /\ call[c].result.items = <<IntoCrate("a"), IntoCrate("b")>>
        /\ Returned(k) /\ call[k].op = "get_series_videos"
        /\ call[k].raw.items = <<"b", "a">>
        /\ call[k].result.items = <<IntoCrateVideo("b"), IntoCrateVideo("a")>>

Invoked(c) == call[c].invoked > 0

\* C15: the guest's search is handed the caller's query, the caller's page
\* (absent when the caller gave none) and every filter in the caller's order,
\* and a search whose guest call returned a value returns Ok.
C15_SearchArgsForwarded ==
    \A c \in Calls :
        (call[c].op = "search" /\ Invoked(c))
        => /\ call[c].sent.query = call[c].args.query
           /\ call[c].sent.page = call[c].args.page
           /\ Len(call[c].sent.filters) = Len(call[c].args.filters)
           /\ \A k \in 1..Len(call[c].args.filters) :
                  /\ call[c].sent.filters[k].id = call[c].args.filters[k].id
                  /\ call[c].sent.filters[k].values = call[c].args.filters[k].values
           /\ (Returned(c) /\ call[c].raw.tag = "ok") => call[c].result.tag = "Ok"

\* C15 witness: a search without a page and with a filter of unknown id in
\* front returned Ok, the guest having been handed both filters and no page.
C15_UnknownFilterNoPageOk ==
    \E c \in Calls :
        /\ Returned(c) /\ call[c].op = "search"
        /\ call[c].args.page = <<>>
        /\ Len(call[c].args.filters) = 2 /\ call[c].args.filters[1].id = "unknown"
        /\ call[c].sent.page = <<>>
        /\ Len(call[c].sent.filters) = 2 /\ call[c].sent.filters[1].id = "unknown"
        /\ call[c].result.tag = "Ok"

Undecodable(out) == \E k \in 1..Len(out.items) : ~VideoUrlOk(out.items[k])

\* C16: get_series_videos fails with a decode error and returns no video
\* when one of the guest's videos does not map, and the call that returned
\* no longer holds or waits for the instance's lock.
C16_DecodeFailsWholeCall ==
    \A c \in Calls :
        (Returned(c) /\ call[c].op = "get_series_videos"
            /\ call[c].raw.tag = "ok" /\ Undecodable(call[c].raw))
        => /\ call[c].result.tag = "Decode"
           /\ call[c].result.items = <<>>
           /\ mutex[LockOf(call[c].inst)].holder # c
           /\ \A k \in 1..Len(mutex[LockOf(call[c].inst)].waiters) :
                  mutex[LockOf(call[c].inst)].waiters[k] # c

\* C16 witness: a good video followed by a malformed one failed the call with
\* a decode error, and the next call on the same instance returned Ok.
C16_OkAfterDecodeError ==
    \E c \in Calls, k \in Calls :
        /\ c < k /\ call[c].inst = call[k].inst
        /\ Returned(c) /\ call[c].raw.items = <<"a", "bad">>
        /\ call[c].result.tag = "Decode"
        /\ Returned(k) /\ call[k].result.tag = "Ok"

SameInstance(c, k) == c # k /\ call[k].inst = call[c].inst

\* C18: as long as a guest invocation has not returned, its call holds the
\* instance's lock, and no other call on the instance is in or past its
\* guest invocation unless it returned earlier; a call waiting for the lock
\* has not invoked the guest.
C18_HungGuestKeepsLock ==
    [][\A c \in Calls :
          (call[c].pc = "guest" /\ call'[c].pc = "guest")
          => /\ mutex'[LockOf(call[c].inst)].holder = c
             /\ \A k \in Calls :
                    SameInstance(c, k)
                    => /\ call'[k].pc \notin {"guest", "decode"}
                       /\ call'[k].pc = "lock" => call'[k].invoked = 0
                       /\ call'[k].pc = "done" => call[k].pc = "done"]_vars

\* C18 witness: a call is inside the guest and a later call on the same
\* instance is queued on the lock without having invoked the guest.
C18_LaterCallQueuedBehindGuest ==
    \E c \in Calls, k \in Calls :
        /\ c < k /\ SameInstance(c, k)
        /\ call[c].pc = "guest" /\ call[c].invoked = 1
        /\ mutex[LockOf(call[c].inst)] = [holder |-> c, waiters |-> <<k>>]
        /\ call[k].pc = "lock" /\ call[k].invoked = 0 /\ call[k].entry = "none"

NoDuplicates(s) == \A j \in 1..Len(s), k \in 1..Len(s) : s[j] = s[k] => j = k

\* C17: a call invokes its guest entry point at most once, exactly once when
\* it got as far as the guest, and a load performs each of its steps at
\* most once, whatever the outcome.
C17_NoRetry ==
    /\ \A c \in Calls :
           /\ call[c].invoked <= 1
           /\ call[c].pc \in {"guest", "decode", "done"} => call[c].invoked = 1
    /\ \A l \in Loads : NoDuplicates(load[l].steps)

\* C17 witness: a call returned the runtime's error after one invocation,
\* and a load failed at instantiation having made each step once.
C17_FailedOnceEach ==
    \E c \in Calls, l \in Loads :
        /\ Returned(c) /\ call[c].result.tag = "Runtime" /\ call[c].invoked = 1
        /\ load[l].pc = "failed" /\ load[l].err = "InstantiationError"
        /\ load[l].steps = LoadOrder

\* C19: the step in which a load fails changes nothing but that load: the
\* other loads and instances (store, variant, capabilities), every lock and
\* every call stay as they were.
C19_FailedLoadTouchesNothingElse ==
    [][\A l \in Loads :
          (load[l].pc # "failed" /\ load'[l].pc = "failed")
          => /\ \A k \in Loads : k # l => load'[k] = load[k]
             /\ mutex' = mutex
             /\ call' = call
             /\ nextStore' = nextStore]_vars

\* C19 witness: a load has failed while the extension of the other load is
\* loaded and a call on it is inside the guest with its lock.
C19_FailedBesideBusyInstance ==
    \E l \in Loads, k \in Loads, c \in Calls :
        /\ load[l].pc = "failed" /\ load[k].pc = "done"
        /\ call[c].pc = "guest" /\ call[c].inst = k
        /\ mutex[LockOf(k)].holder = c

\* the guest entry point that has the operation's name
EntryNamed(op) == "call_" \o op

\* C22: a call that waits for the lock has dispatched nothing and invoked
\* nothing; a call inside the guest holds the lock; and the entry point a
\* call has invoked is the one named after its operation.
C22_LockThenSameNamedEntry ==
    \A c \in Calls :
        /\ call[c].pc = "lock" => (call[c].entry = "none" /\ call[c].invoked = 0)
        /\ call[c].pc = "guest" => HolderOf(c) = c
        /\ Invoked(c) => call[c].entry = EntryNamed(call[c].op)

\* C22 witness: filters and search have both been dispatched on one
\* instance, each to the entry point of its name.
C22_FiltersAndSearchDispatched ==
    \E c \in Calls, k \in Calls :
        /\ SameInstance(c, k)
        /\ call[c].op = "filters" /\ call[c].entry = "call_filters"
        /\ call[k].op = "search" /\ call[k].entry = "call_search"

C24_CancelReleasesLock ==
    [][\A c \in Calls :
          (call[c].pc = "guest" /\ call'[c].pc = "cancelled")
          => LET m == mutex[LockOf(call[c].inst)]
                 n == mutex'[LockOf(call[c].inst)]
             IN  /\ n.holder # c
                 /\ \A k \in 1..Len(n.waiters) : n.waiters[k] # c
                 /\ m.waiters = <<>> => n = FreeMutex
                 /\ m.waiters # <<>> => n.holder = Head(m.waiters)]_vars

\* C24 witness: a call was dropped after it had invoked the guest, and a
\* later call on the same instance is inside the guest with the lock.
C24_LockTakenAfterCancel ==
    \E c \in Calls, k \in Calls :
        /\ c < k /\ SameInstance(c, k)
        /\ call[c].pc = "cancelled" /\ call[c].invoked = 1
        /\ call[k].pc = "guest" /\ HolderOf(k) = k

\* C25: no step of an extraction call changes the variant of a loaded
\* instance, the version it was selected from, or anything else of a load.
C25_VariantFixedAtLoad ==
    [][\A l \in Loads :
          load[l].pc = "done"
          => /\ load'[l].extension = load[l].extension
             /\ load'[l].version = load[l].version
             /\ load'[l] = load[l]]_vars

\* C25 witness: a call that failed and a call that succeeded have both
\* returned on an instance whose variant is still V001.
C25_VariantAfterOkAndErr ==
    \E c \in Calls, k \in Calls :
        /\ SameInstance(c, k)
        /\ Returned(c) /\ call[c].result.tag \in {"Runtime", "Guest", "Decode"}
        /\ Returned(k) /\ call[k].result.tag = "Ok"
        /\ load[call[c].inst].extension = "V001"
        /\ load[call[c].inst].version = <<0, 0, 1>>

\* C26: a load never panics in the unreachable!() branch: a load that read
\* a core module fails with CompileError as soon as it has compiled.
C26_ModuleNeverUnreachable ==
    \A l \in Loads :
        /\ ~(load[l].pc = "panicked" /\ load[l].err = "unreachable")
        /\ (Kind(load[l].wasm_bytes) = "module" /\ load[l].wasm_bytes # NoBytes
                /\ load[l].pc # "read")
           => (load[l].pc = "failed" /\ load[l].err = "CompileError")

\* the kebab-case names of the variants of TransitionProperty
KebabName(ident) ==
    CASE ident = <<"N", "o", "n", "e">> -> "none"
      [] ident = <<"A", "l", "l">> -> "all"
      [] ident = <<"T", "r", "a", "n", "s", "i", "t", "i", "o", "n">> -> "transition"
      [] ident = <<"C", "o", "l", "o", "r", "s">> -> "colors"
      [] ident = <<"O", "p", "a", "c", "i", "t", "y">> -> "opacity"
      [] ident = <<"S", "h", "a", "d", "o", "w">> -> "shadow"
      [] ident = <<"T", "r", "a", "n", "s", "f", "o", "r", "m">> -> "transform"

\* C21: TransitionProperty::Transition, marked #[display(no_prefix)],
\* renders as "transition", and every other variant of TransitionProperty
\* renders as "transition-" followed by its kebab-case name.
C21_NoPrefixVariantBare ==
    (disp.pc = "done" /\ disp.enum = "TransitionProperty")
    => disp.text = IF disp.no_prefix
                   THEN KebabName(disp.ident)
                   ELSE "transition-" \o KebabName(disp.ident)

\* C27: the watch page in view never panics: it shows the loading text
\* while the videos resource is unresolved and a player once it has
\* resolved, to an empty list included.
C27_WatchNeverPanics ==
    watch.pc = "viewed"
    => /\ watch.view.player # "panicked"
       /\ watch.videos = None => watch.view.src = "Loading player..."
       /\ watch.videos # None => watch.view.player = "video"
====
